---- MODULE Spec2Model ----
(***************************************************************************)
(* A model of JsCrawlar.go: a sequential crawler that walks the pages of   *)
(* one domain breadth-first, collects the JavaScript URLs the pages name,  *)
(* writes them to "<domain>_all_js.txt" and then probes each one, sorting  *)
(* it into "<domain>_good_js.txt" or "<domain>_bad_js.txt".                *)
(*                                                                         *)
(* Go strings are modelled as sequences of one-character strings, so that  *)
(* url.Parse, URL.String, URL.ResolveReference and strings.HasSuffix are   *)
(* computed on the characters.  The characters that occur are letters,     *)
(* digits and  . - / : ? # =  ; none of them is escaped or unescaped by    *)
(* net/url, so the escaping steps of net/url are the identity on them.     *)
(***************************************************************************)
EXTENDS Integers, Sequences, FiniteSets, Bags, TLC

\* F of the value of x: x is evaluated once, however often F uses it
Let(x, F(_)) == CHOOSE y \in {F(v) : v \in {x}} : TRUE

(***************************************************************************)
(* Strings                                                                 *)
(***************************************************************************)
LowerCase == <<"a","b","c","d","e","f","g","h","i","j","k","l","m",
               "n","o","p","q","r","s","t","u","v","w","x","y","z">>

UpperCase == <<"A","B","C","D","E","F","G","H","I","J","K","L","M",
               "N","O","P","Q","R","S","T","U","V","W","X","Y","Z">>

Digits == {"0","1","2","3","4","5","6","7","8","9"}

Range(s) == {s[i] : i \in DOMAIN s}

IsLetter(c) == c \in Range(LowerCase) \cup Range(UpperCase)

\* strings.ToLower, one character
ToLowerChar(c) ==
  IF c \in Range(UpperCase)
  THEN LowerCase[CHOOSE i \in DOMAIN UpperCase : UpperCase[i] = c]
  ELSE c

\* strings.ToLower
ToLower(s) == [i \in DOMAIN s |-> ToLowerChar(s[i])]

\* s[from:] with from a 1-based position (Len(s)+1 gives "")
From(s, from) == SubSeq(s, from, Len(s))

\* s[:upto] up to and including the 1-based position upto (0 gives "")
Upto(s, upto) == SubSeq(s, 1, upto)

\* strings.HasPrefix
HasPrefix(s, p) == Len(s) >= Len(p) /\ Upto(s, Len(p)) = p

\* strings.HasSuffix
HasSuffix(s, p) == Len(s) >= Len(p) /\ From(s, Len(s) - Len(p) + 1) = p

\* strings.IndexByte, 1-based, 0 when c does not occur
Index(s, c) ==
  Let(s, LAMBDA v :
    IF \E i \in DOMAIN v : v[i] = c
    THEN CHOOSE i \in DOMAIN v : v[i] = c /\ \A j \in 1..(i-1) : v[j] # c
    ELSE 0)

\* strings.LastIndexByte, 1-based, 0 when c does not occur
LastIndex(s, c) ==
  Let(s, LAMBDA v :
    IF \E i \in DOMAIN v : v[i] = c
    THEN CHOOSE i \in DOMAIN v : v[i] = c /\ \A j \in (i+1)..Len(v) : v[j] # c
    ELSE 0)

\* strings.Count of a single character
Count(s, c) == Cardinality({i \in DOMAIN s : s[i] = c})

\* strings.Cut(s, c): the text before and after the first c, and whether c occurs
Cut(s, c) ==
  Let(s, LAMBDA v : Let(Index(v, c), LAMBDA i :
    IF i = 0 THEN [before |-> v, after |-> <<>>, found |-> FALSE]
    ELSE [before |-> Upto(v, i-1), after |-> From(v, i+1), found |-> TRUE]))

\* strings.TrimRight(s, cutset)
RECURSIVE TrimRight(_, _)
TrimRight(s, cutset) ==
  IF s # <<>> /\ s[Len(s)] \in cutset
  THEN TrimRight(Upto(s, Len(s)-1), cutset)
  ELSE s

(***************************************************************************)
(* net/url as the program uses it: Parse, IsAbs, String, ResolveReference  *)
(***************************************************************************)
\* the URL structure; ok = FALSE stands for a non-nil error
NoURL == [ok |-> FALSE, Scheme |-> <<>>, Opaque |-> <<>>, Host |-> <<>>,
          Path |-> <<>>, OmitHost |-> FALSE, ForceQuery |-> FALSE,
          RawQuery |-> <<>>, Fragment |-> <<>>]

EmptyURL == [NoURL EXCEPT !.ok = TRUE]

\* url.getScheme: [ok, scheme, rest]
RECURSIVE getSchemeAt(_, _)
getSchemeAt(rawURL, i) ==
  IF i > Len(rawURL) THEN [ok |-> TRUE, scheme |-> <<>>, rest |-> rawURL]
  ELSE LET c == rawURL[i]
       IN IF IsLetter(c) THEN Let(i + 1, LAMBDA j : getSchemeAt(rawURL, j))
          ELSE IF c \in Digits \cup {"+", "-", "."}
          THEN IF i = 1 THEN [ok |-> TRUE, scheme |-> <<>>, rest |-> rawURL]
               ELSE Let(i + 1, LAMBDA j : getSchemeAt(rawURL, j))
          ELSE IF c = ":"
          THEN IF i = 1 THEN [ok |-> FALSE, scheme |-> <<>>, rest |-> <<>>]
               ELSE [ok |-> TRUE, scheme |-> Upto(rawURL, i-1),
                     rest |-> From(rawURL, i+1)]
          ELSE [ok |-> TRUE, scheme |-> <<>>, rest |-> rawURL]

getScheme(rawURL) == Let(rawURL, LAMBDA s : getSchemeAt(s, 1))

\* url.validOptionalPort: "" or ":" followed by digits
validOptionalPort(port) ==
  Let(port, LAMBDA p :
    \/ p = <<>>
    \/ p[1] = ":" /\ \A i \in 2..Len(p) : p[i] \in Digits)

\* url.parseHost for a host that is not an IP literal: [ok, host]
parseHost(host) ==
  Let(LastIndex(host, ":"), LAMBDA i :
    IF i # 0 /\ ~validOptionalPort(From(host, i))
    THEN [ok |-> FALSE, host |-> <<>>]
    ELSE [ok |-> TRUE, host |-> host])

\* url.parse, after the scheme and the query are cut off: u0 holds them,
\* rest is what is left
parseRest(u0, rest) ==
  IF ~HasPrefix(rest, <<"/">>) /\ u0.Scheme # <<>>
  THEN [u0 EXCEPT !.Opaque = rest]
  ELSE IF ~HasPrefix(rest, <<"/">>) /\ Index(Cut(rest, "/").before, ":") # 0
  THEN NoURL
  ELSE IF (u0.Scheme # <<>> \/ ~HasPrefix(rest, <<"/","/","/">>))
          /\ HasPrefix(rest, <<"/","/">>)
  THEN Let(Cut(From(rest, 3), "/"), LAMBDA a :
         Let(parseHost(a.before), LAMBDA h :
           IF ~h.ok THEN NoURL
           ELSE [u0 EXCEPT !.Host = h.host,
                           !.Path = IF a.found THEN <<"/">> \o a.after
                                    ELSE <<>>]))
  ELSE IF u0.Scheme # <<>> /\ HasPrefix(rest, <<"/">>)
  THEN [u0 EXCEPT !.OmitHost = TRUE, !.Path = rest]
  ELSE [u0 EXCEPT !.Path = rest]

\* url.parse(rawURL, viaRequest = false) on a text without fragment
parseNoFragment(rawURL) ==
  Let(getScheme(rawURL), LAMBDA sch :
    IF ~sch.ok THEN NoURL
    ELSE IF HasSuffix(sch.rest, <<"?">>) /\ Count(sch.rest, "?") = 1
    THEN Let([EmptyURL EXCEPT !.Scheme = ToLower(sch.scheme),
                              !.ForceQuery = TRUE],
             LAMBDA u0 : Let(Upto(sch.rest, Len(sch.rest) - 1),
                             LAMBDA rest : parseRest(u0, rest)))
    ELSE Let(Cut(sch.rest, "?"), LAMBDA q :
           Let([EmptyURL EXCEPT !.Scheme = ToLower(sch.scheme),
                                !.RawQuery = q.after],
               LAMBDA u0 : parseRest(u0, q.before))))

\* url.Parse
Parse(rawURL) ==
  Let(Cut(rawURL, "#"), LAMBDA c :
    Let(parseNoFragment(c.before), LAMBDA u :
      IF ~u.ok THEN NoURL ELSE [u EXCEPT !.Fragment = c.after]))

\* URL.IsAbs
IsAbs(u) == u.Scheme # <<>>

\* URL.String
String(u) ==
  LET scheme == IF u.Scheme # <<>> THEN u.Scheme \o <<":">> ELSE <<>>
      slashes == IF (u.Scheme # <<>> \/ u.Host # <<>>)
                    /\ ~(u.OmitHost /\ u.Host = <<>>)
                    /\ (u.Host # <<>> \/ u.Path # <<>>)
                 THEN <<"/","/">> ELSE <<>>
      head == scheme \o slashes \o u.Host
      sep == IF u.Path # <<>> /\ u.Path[1] # "/" /\ u.Host # <<>>
             THEN <<"/">>
             ELSE IF head = <<>> /\ Index(Cut(u.Path, "/").before, ":") # 0
             THEN <<".","/">>
             ELSE <<>>
      body == IF u.Opaque # <<>> THEN scheme \o u.Opaque
              ELSE head \o sep \o u.Path
      query == IF u.ForceQuery \/ u.RawQuery # <<>>
               THEN <<"?">> \o u.RawQuery ELSE <<>>
      frag == IF u.Fragment # <<>> THEN <<"#">> \o u.Fragment ELSE <<>>
  IN body \o query \o frag

\* the loop of url.resolvePath: dst is what was written after the leading "/",
\* first is the flag of the same name, elem the last element cut off
RECURSIVE removeDots(_, _, _, _, _)
removeDots(remaining, found, dst, first, elem) ==
  IF ~found
  THEN LET r == <<"/">> \o dst \o
                (IF elem = <<".">> \/ elem = <<".",".">> THEN <<"/">> ELSE <<>>)
       IN IF Len(r) > 1 /\ r[2] = "/" THEN Tail(r) ELSE r
  ELSE LET c == Cut(remaining, "/")
       IN IF c.before = <<".">>
          THEN removeDots(c.after, c.found, dst, FALSE, c.before)
          ELSE IF c.before = <<".",".">>
          THEN LET index == LastIndex(dst, "/")
               IN IF index = 0
                  THEN removeDots(c.after, c.found, <<>>, TRUE, c.before)
                  ELSE removeDots(c.after, c.found, Upto(dst, index-1),
                                  first, c.before)
          ELSE removeDots(c.after, c.found,
                          dst \o (IF first THEN <<>> ELSE <<"/">>) \o c.before,
                          FALSE, c.before)

\* url.resolvePath
resolvePath(base, ref) ==
  LET full == IF ref = <<>> THEN base
              ELSE IF ref[1] # "/" THEN Upto(base, LastIndex(base, "/")) \o ref
              ELSE ref
  IN IF full = <<>> THEN <<>> ELSE removeDots(full, TRUE, <<>>, TRUE, <<>>)

\* URL.ResolveReference
ResolveReference(u, ref) ==
  LET url0 == IF ref.Scheme = <<>> THEN [ref EXCEPT !.Scheme = u.Scheme] ELSE ref
      sameDoc == ref.Path = <<>> /\ ~ref.ForceQuery /\ ref.RawQuery = <<>>
      url1 == IF sameDoc
              THEN [url0 EXCEPT !.RawQuery = u.RawQuery,
                                !.Fragment = IF ref.Fragment = <<>>
                                             THEN u.Fragment ELSE ref.Fragment]
              ELSE url0
  IN IF ref.Scheme # <<>> \/ ref.Host # <<>>
     THEN [url0 EXCEPT !.Path = resolvePath(ref.Path, <<>>)]
     ELSE IF ref.Opaque # <<>>
     THEN [url0 EXCEPT !.Host = <<>>, !.Path = <<>>]
     ELSE IF ref.Path = <<>> /\ u.Opaque # <<>>
     THEN [url1 EXCEPT !.Opaque = u.Opaque, !.Host = <<>>, !.Path = <<>>]
     ELSE [url1 EXCEPT !.Host = u.Host,
                       !.Path = resolvePath(u.Path, ref.Path)]

(***************************************************************************)
(* resolveURL and sameDomain                                               *)
(***************************************************************************)
\* resolveURL makes href absolute against base; "" stands for both errors
resolveURL(base, href) ==
  Let(Parse(href), LAMBDA u :
    IF ~u.ok THEN <<>>
    ELSE IF IsAbs(u) THEN String(u)
    ELSE Let(Parse(base), LAMBDA bu :
           IF ~bu.ok THEN <<>>
           ELSE Let(ResolveReference(bu, u), String)))

\* sameDomain, matching the end of the host instead of the whole host
sameDomainSuffix(link, domain) ==
  Let(Parse(link), LAMBDA u : u.ok /\ HasSuffix(u.Host, domain))

\* sameDomain ensures link host matches domain
sameDomain(link, domain) ==
  Let(Parse(link), LAMBDA u : u.ok /\ u.Host = domain)

(***************************************************************************)
(* The node tree html.Parse returns.  A node has a Type, for an element    *)
(* its tag name Data and its attributes Attr (Key, Val pairs in document   *)
(* order), and its children in document order.  Tag names and attribute    *)
(* keys are only ever compared as wholes and are written as atoms;         *)
(* attribute values are strings.                                           *)
(***************************************************************************)
ElementNode == "ElementNode"
TextNode == "TextNode"
DocumentNode == "DocumentNode"

Attribute(key, val) == [Key |-> key, Val |-> val]

Element(data, attr, children) ==
  [Type |-> ElementNode, Data |-> data, Attr |-> attr, Children |-> children]

Text == [Type |-> TextNode, Data |-> "text", Attr |-> <<>>, Children |-> <<>>]

\* the document html.Parse builds: html, head and body always exist
Document(head, body) ==
  [Type |-> DocumentNode, Data |-> "", Attr |-> <<>>,
   Children |-> << Element("html", <<>>,
                     << Element("head", <<>>, head),
                        Element("body", <<>>, body) >>) >>]

JsSuffix == <<".","j","s">>
modulepreload == <<"m","o","d","u","l","e","p","r","e","l","o","a","d">>
prefetch == <<"p","r","e","f","e","t","c","h">>
script == <<"s","c","r","i","p","t">>

\* the loop over the attributes of a script element, comparing the suffix
\* without regard to case
RECURSIVE scriptSrcsAnyCase(_, _)
scriptSrcsAnyCase(attr, base) ==
  IF attr = <<>> THEN <<>>
  ELSE LET a == Head(attr)
           u == resolveURL(base, a.Val)
       IN (IF a.Key = "src" /\ HasSuffix(ToLower(u), JsSuffix) THEN <<u>> ELSE <<>>)
            \o scriptSrcsAnyCase(Tail(attr), base)

\* extractJS, the loop over the attributes of a script element
RECURSIVE scriptSrcs(_, _)
scriptSrcs(attr, base) ==
  IF attr = <<>> THEN <<>>
  ELSE LET a == Head(attr)
           u == resolveURL(base, a.Val)
       IN (IF a.Key = "src" /\ HasSuffix(u, JsSuffix) THEN <<u>> ELSE <<>>)
          \o scriptSrcs(Tail(attr), base)

\* extractJS, the loop over the attributes of a link element: the value of
\* the last attribute with this key, "" when there is none
RECURSIVE attrVal(_, _)
attrVal(attr, key) ==
  IF attr = <<>> THEN <<>>
  ELSE LET a == attr[Len(attr)]
       IN IF a.Key = key THEN a.Val
          ELSE attrVal(SubSeq(attr, 1, Len(attr) - 1), key)

\* extractJS, what a link element adds to out
linkPreloads(attr, base) ==
  LET rel == attrVal(attr, "rel")
      as == attrVal(attr, "as")
      href == attrVal(attr, "href")
      u == resolveURL(base, href)
  IN IF (rel = modulepreload \/ rel = prefetch) /\ as = script
        /\ HasSuffix(u, JsSuffix)
     THEN <<u>> ELSE <<>>

\* extractJS, the closure rec: what the subtree of n appends to out
RECURSIVE extractJSRec(_, _)
RECURSIVE extractJSChildren(_, _)
extractJSChildren(children, base) ==
  IF children = <<>> THEN <<>>
  ELSE extractJSRec(Head(children), base)
       \o extractJSChildren(Tail(children), base)

extractJSRec(n, base) ==
  (IF n.Type = ElementNode /\ n.Data = "script"
   THEN scriptSrcs(n.Attr, base) ELSE <<>>)
  \o (IF n.Type = ElementNode /\ n.Data = "link"
      THEN linkPreloads(n.Attr, base) ELSE <<>>)
  \o extractJSChildren(n.Children, base)

\* extractJS finds <script src> and <link rel=modulepreload|prefetch as=script>
\* URLs ending with .js
extractJS(doc, base) == extractJSRec(doc, base)

\* extractLinks, the loop over the attributes of an a element
RECURSIVE anchorHrefs(_, _)
anchorHrefs(attr, base) ==
  IF attr = <<>> THEN <<>>
  ELSE LET a == Head(attr)
       IN (IF a.Key = "href" THEN <<resolveURL(base, a.Val)>> ELSE <<>>)
          \o anchorHrefs(Tail(attr), base)

\* extractLinks, the closure rec
RECURSIVE extractLinksRec(_, _)
RECURSIVE extractLinksChildren(_, _)
extractLinksChildren(children, base) ==
  IF children = <<>> THEN <<>>
  ELSE extractLinksRec(Head(children), base)
       \o extractLinksChildren(Tail(children), base)

extractLinksRec(n, base) ==
  (IF n.Type = ElementNode /\ n.Data = "a"
   THEN anchorHrefs(n.Attr, base) ELSE <<>>)
  \o extractLinksChildren(n.Children, base)

\* extractLinks finds <a href> URLs
extractLinks(doc, base) == extractLinksRec(doc, base)

(***************************************************************************)
(* The web the program talks to.  A site answers a GET for a page with a   *)
(* status code and a body, chosen by the path of the request (the fragment *)
(* is not sent, and these sites ignore the query); a path the site does    *)
(* not know is answered by its 404 page.  Every GET may instead fail at    *)
(* the transport, or its body may fail to be read.                         *)
(***************************************************************************)
A(href) == Element("a", <<Attribute("href", href)>>, <<Text>>)

Script(src) == Element("script", <<Attribute("src", src)>>, <<>>)

InlineScript == Element("script", <<>>, <<Text>>)

Preload(rel, as, href) ==
  Element("link", <<Attribute("rel", rel), Attribute("as", as),
                    Attribute("href", href)>>, <<>>)

Page(status, head, body) == [status |-> status, body |-> Document(head, body)]

\* the site of the end-to-end scenario: a seed page and an about page
Site1 ==
  [paths |->
     (<<"/">> :> Page(200, <<Script(<<"/","a","p","p",".","j","s">>)>>, <<A(<<"/","a","b","o","u","t">>)>>)) @@
     (<<"/","a","b","o","u","t">> :> Page(200, <<Preload(modulepreload, script, <<"/","c","h","u","n","k","1",".","j","s">>)>>,
                        <<Text>>)),
   notFound |-> Page(404, <<>>, <<Text>>)]

\* a site whose seed page links to one page under many spellings, to other
\* hosts, to other schemes and to references that do not parse; its pages
\* link to each other and back
Site2 ==
  [paths |->
     (<<"/">> :> Page(200, <<>>,
        << A(<<"/","a">>), A(<<"/","a","/">>), A(<<"/","A">>), A(<<"/","a","?","v","=","2">>), A(<<"/","a","#","f">>),
           A(<<"h","t","t","p","s",":","/","/","e",".","c",":","4","4","3","/","a">>), A(<<"h","t","t","p","s",":","/","/","E",".","c","/","a">>),
           A(<<"h","t","t","p","s",":","/","/","w","w","w",".","e",".","c","/">>), A(<<":","b","a","d">>), A(<<"m","a","i","l","t","o",":","x">>),
           A(<<"/","/","e",".","c","/","a">>), A(<<"/">>), A(<<"f","t","p",":","/","/","e",".","c","/","f">>),
           A(<<"H","T","T","P","S",":","/","/","e",".","c","/","h">>), A(<<"h","t","t","p","s",":","/","/","e",".","c","/","h">>), A(<<"h","t","t","p",":","/","/","e",".","c","/","h">>) >>)) @@
     (<<"/","a">> :> Page(200, <<Script(<<"h","t","t","p","s",":","/","/","e",".","c","/","s",".","j","s">>)>>,
        << A(<<"/","b">>), A(<<"/","a","/">>), A(<<"#","f">>) >>)) @@
     (<<"/","a","/">> :> Page(200, <<>>, << A(<<"b">>), A(<<".",".","/">>), A(<<".","/">>) >>)) @@
     (<<"/","A">> :> Page(200, <<>>, << A(<<"/","b">>), A(<<"/">>) >>)) @@
     (<<"/","b">> :> Page(200, <<Script(<<"h","t","t","p","s",":","/","/","e",".","c","/","s",".","j","s">>)>>,
        << A(<<"/">>), A(<<"/","a","/","b">>) >>)) @@
     (<<"/","h">> :> Page(200, <<>>, << A(<<"h","t","t","p",":","/","/","e",".","c","/","h">>), A(<<"#">>) >>)),
   notFound |-> Page(404, <<>>, <<A(<<"/">>)>>)]

\* a site whose seed page names scripts and preloads in many forms, and
\* links to a page whose own URL ends in ".js"
Site3 ==
  [paths |->
     (<<"/">> :> Page(200,
        << Script(<<"/","a","/","b",".","j","s">>), Script(<<"/","a","/","b",".","J","S">>), Script(<<"/","a","/","b",".","j","s",".","m","a","p">>),
           Script(<<"/","a","p","p",".","j","s","?","v","=","2">>), InlineScript,
           Script(<<"h","t","t","p","s",":","/","/","x",".","y","/","l","i","b",".","j","s">>),
           Script(<<":","b","a","d">>),
           Element("link", <<Attribute("href", <<"/","p",".","j","s">>),
                             Attribute("as", script),
                             Attribute("rel", prefetch)>>, <<>>),
           Preload(<<"s","t","y","l","e","s","h","e","e","t">>, <<>>, <<"/","s",".","c","s","s">>),
           Preload(<<"p","r","e","l","o","a","d">>, script, <<"/","q",".","j","s">>),
           Element("link", <<Attribute("rel", modulepreload),
                             Attribute("href", <<"/","n",".","j","s">>)>>, <<>>),
           Element("link", <<Attribute("rel", modulepreload),
                             Attribute("as", script)>>, <<>>) >>,
        << A(<<"/","a","p","p",".","j","s">>), Script(<<"a","/","b",".","j","s">>) >>)) @@
     (<<"/","a","p","p",".","j","s">> :> Page(200,
        << Element("link", <<Attribute("rel", modulepreload),
                             Attribute("as", script)>>, <<>>) >>,
        << Text >>)),
   notFound |-> Page(404, <<>>, <<Text>>)]

\* a site that answers every request with its 404 page, which carries a
\* script and a link
Site4 ==
  [paths |-> (<<"/","n","o","n","e">> :> Page(404, <<>>, <<>>)),
   notFound |-> Page(404, <<Script(<<"/","e","r","r",".","j","s">>)>>, <<A(<<"/","x">>)>>)]

\* a site with no JS file: an inline script, a script whose src is no .js
\* URL, a stylesheet preload
Site5 ==
  [paths |->
     (<<"/">> :> Page(200, <<InlineScript, Script(<<"/","a","p","p",".","c","s","s">>)>>, <<A(<<"/","p">>)>>)) @@
     (<<"/","p">> :> Page(200, <<Preload(<<"p","r","e","l","o","a","d">>, <<"s","t","y","l","e">>, <<"/","s",".","j","s">>)>>,
                   <<A(<<"/">>), A(<<"/","q">>)>>)),
   notFound |-> Page(404, <<>>, <<>>)]

\* the sites by name
SiteNames == {"scenario", "spellings", "scripts", "notfound", "plain"}

SiteOf(name) ==
  CASE name = "scenario" -> Site1
    [] name = "spellings" -> Site2
    [] name = "scripts" -> Site3
    [] name = "notfound" -> Site4
    [] name = "plain" -> Site5

\* what the site answers to a GET for page
Response(name, page) ==
  Let(Parse(page).Path, LAMBDA path :
    IF path \in DOMAIN SiteOf(name).paths THEN SiteOf(name).paths[path]
    ELSE SiteOf(name).notFound)

\* http.Get has a transport for http and https only
Supported(page) == Parse(page).Scheme \in {<<"h","t","t","p">>, <<"h","t","t","p","s">>}

\* the status codes a probe is answered with
Statuses == {200, 399, 400, 404}

\* what a probe of a JS URL may give: a transport error, or a response
ProbeOutcomes ==
  {[err |-> TRUE, status |-> 0]} \cup {[err |-> FALSE, status |-> c] : c \in Statuses}

\* the command lines: os.Args, the program name first
ArgLists ==
  { <<<<"j","s","C","r","a","w","l","e","r">>>>,
    <<<<"j","s","C","r","a","w","l","e","r">>, <<"e",".","c">>>>,
    <<<<"j","s","C","r","a","w","l","e","r">>, <<"e",".","c">>, <<"h","t","t","p",":","/","/">>>> }

\* at most this many page fetches of one run fail
MaxFailures == 2

(***************************************************************************)
(* The state of main                                                       *)
(***************************************************************************)
VARIABLES
  args,     \* os.Args
  site,     \* the name of the site behind the domain
  pc,       \* where main is: "start", "crawl", "create_all", "create_good",
            \* "create_bad", "write_all", "verify", "done"
  exit,     \* how main ended: "usage", "nojs", "createfail", "ok"
  domain,   \* os.Args[1]
  root,     \* scheme://domain/
  seen,     \* the keys of the map seen
  queue,    \* the slice queue
  jsSet,    \* the keys of the map jsSet
  created,  \* the output files os.Create has made: "all", "good", "bad"
  af, gf, bf,  \* the lines in the three files, as bags: the order of the
               \* lines is the iteration order of a map
  gw, bw,   \* the lines held in the bufio.Writers gw and bw
  todo,     \* the keys the range loop of the verification has yet to visit
  fetched,  \* history: the page fetches so far, [page, res, status]
  failures, \* history: the fetches that failed although http.Get has a
            \* transport for their scheme
  enq,      \* history: every URL put in the queue, in order
  depth,    \* history: the link hops from the root at which a URL was enqueued
  probes    \* history: the probes so far, a bag of [js, err, status]

vars == <<args, site, pc, exit, domain, root, seen, queue, jsSet, created,
          af, gf, bf, gw, bw, todo, fetched, failures, enq, depth, probes>>

crawlVars == <<seen, queue, jsSet, fetched, failures, enq, depth>>
fileVars == <<created, af, gf, bf, gw, bw>>
argVars == <<args, site, domain, root>>

NoDepth == [u \in {} |-> 0]

Init ==
  /\ args \in ArgLists
  /\ site \in SiteNames
  /\ pc = "start"
  /\ exit = ""
  /\ domain = <<>>
  /\ root = <<>>
  /\ seen = {}
  /\ queue = <<>>
  /\ jsSet = {}
  /\ created = {}
  /\ af = EmptyBag /\ gf = EmptyBag /\ bf = EmptyBag
  /\ gw = EmptyBag /\ bw = EmptyBag
  /\ todo = {}
  /\ fetched = <<>>
  /\ failures = 0
  /\ enq = <<>>
  /\ depth = NoDepth
  /\ probes = EmptyBag

\* the scheme main uses
schemeOf(osArgs) ==
  IF Len(osArgs) >= 3 THEN TrimRight(osArgs[3], {":", "/"}) ELSE <<"h","t","t","p","s">>

\* fmt.Sprintf("%s://%s/", scheme, domain)
rootOf(scheme, dom) == scheme \o <<":","/","/">> \o dom \o <<"/">>

\* main, the arguments and the start of the crawl
ParseArgs ==
  /\ pc = "start"
  /\ IF Len(args) < 2
     THEN /\ pc' = "done"
          /\ exit' = "usage"
          /\ UNCHANGED <<domain, root, seen, queue, enq, depth>>
     ELSE LET r == rootOf(schemeOf(args), args[2])
          IN /\ pc' = "crawl"
             /\ exit' = exit
             /\ domain' = args[2]
             /\ root' = r
             /\ seen' = {r}
             /\ queue' = <<r>>
             /\ enq' = <<r>>
             /\ depth' = (r :> 0)
  /\ UNCHANGED <<args, site, jsSet, fetched, failures, todo, probes>>
  /\ UNCHANGED fileVars

\* the dequeue, taking the last entry instead of the first
DequeueLast(q) == [page |-> q[Len(q)], rest |-> SubSeq(q, 1, Len(q) - 1)]

\* page := queue[0]; queue = queue[1:]
Dequeue(q) == [page |-> Head(q), rest |-> Tail(q)]

\* the condition, without the test of seen
EnqueuesAgain(link, dom, sn) == sameDomain(link, dom)

\* the condition under which a link is enqueued
Enqueues(link, dom, sn) == sameDomain(link, dom) /\ link \notin sn

\* the body of the loop, marking the link as seen without appending it
enqueueMarksOnly(link, dom, st) ==
  IF sameDomain(link, dom) /\ link \notin st.seen
  THEN [seen |-> st.seen \cup {link}, queue |-> st.queue]
  ELSE st

\* the body of the loop, appending the link without marking it as seen
enqueueUnmarked(link, dom, st) ==
  IF sameDomain(link, dom) /\ link \notin st.seen
  THEN [seen |-> st.seen, queue |-> Append(st.queue, link)]
  ELSE st

\* the body of the loop over the extracted links: st holds seen and queue
enqueue(link, dom, st) ==
  IF Enqueues(link, dom, st.seen)
  THEN [seen |-> st.seen \cup {link}, queue |-> Append(st.queue, link)]
  ELSE st

\* the loop over the extracted links: seen and queue after it
RECURSIVE enqueueLinks(_, _, _)
enqueueLinks(links, dom, st) ==
  IF links = <<>> THEN st
  ELSE Let(enqueue(Head(links), dom, st),
           LAMBDA next : enqueueLinks(Tail(links), dom, next))

\* the queue after a failed fetch, with the page put back for another try
afterFailureRetry(page, rest) == Append(rest, page)

\* the queue after a page whose fetch failed: continue
afterFailure(page, rest) == rest

\* one turn of the crawl loop in which http.Get or io.ReadAll fails
FetchFails ==
  /\ pc = "crawl"
  /\ queue # <<>>
  /\ \E d \in {Dequeue(queue)} : \E res \in {"fetchErr", "readErr"} :
          /\ IF Supported(d.page)
             THEN failures < MaxFailures /\ failures' = failures + 1
             ELSE res = "fetchErr" /\ failures' = failures
          /\ queue' = afterFailure(d.page, d.rest)
          /\ fetched' = Append(fetched, [page |-> d.page, res |-> res,
                                         status |-> 0])
  /\ UNCHANGED <<pc, exit, seen, jsSet, enq, depth, todo, probes>>
  /\ UNCHANGED argVars
  /\ UNCHANGED fileVars

\* the text of a response, kept only when its status is below 400
contentIfOk(resp) ==
  IF resp.status >= 400 THEN Document(<<>>, <<>>) ELSE resp.body

\* content := string(body): the text of the response, whatever its status
content(resp) == resp.body

\* the loop over the JS URLs of a page, forgetting those of the pages before
accumulateLast(js, found) == Range(found)

\* the loop over the JS URLs of a page, keeping those of the first page only
accumulateFirst(js, found) == IF js = {} THEN Range(found) ELSE js

\* for _, js := range extractJS(content, page) { jsSet[js] = true }
accumulate(js, found) == js \cup Range(found)

\* one turn of the crawl loop in which the page is fetched and read
FetchPage ==
  /\ pc = "crawl"
  /\ queue # <<>>
  /\ \E d \in {Dequeue(queue)} :
     \E resp \in {Response(site, d.page)} :
     \E html \in {content(resp)} :
     \E links \in {extractLinks(html, d.page)} :
     \E r \in {enqueueLinks(links, domain,
                              [seen |-> seen, queue |-> d.rest])} :
     \E new \in {SubSeq(r.queue, Len(d.rest) + 1, Len(r.queue))} :
        /\ Supported(d.page)
        /\ jsSet' = accumulate(jsSet, extractJS(html, d.page))
        /\ seen' = r.seen
        /\ queue' = r.queue
        /\ fetched' = Append(fetched, [page |-> d.page, res |-> "ok",
                                       status |-> resp.status])
        /\ failures' = failures
        /\ enq' = enq \o new
        /\ depth' = [u \in DOMAIN depth \cup Range(new) |->
                       IF u \in DOMAIN depth THEN depth[u]
                       ELSE depth[d.page] + 1]
  /\ UNCHANGED <<pc, exit, todo, probes>>
  /\ UNCHANGED argVars
  /\ UNCHANGED fileVars

\* the test of len(jsSet), left out
nothingFoundNever(js) == FALSE

\* whether main returns after the crawl without writing anything
nothingFound(js) == js = {}

\* the end of the crawl loop and the test of len(jsSet)
CrawlDone ==
  /\ pc = "crawl"
  /\ queue = <<>>
  /\ IF nothingFound(jsSet)
     THEN pc' = "done" /\ exit' = "nojs"
     ELSE pc' = "create_all" /\ exit' = exit
  /\ UNCHANGED <<todo, probes>>
  /\ UNCHANGED crawlVars
  /\ UNCHANGED argVars
  /\ UNCHANGED fileVars

\* os.Create whose failure is printed but does not end the run
CreateGoesOn(file, next) ==
  /\ \E ok \in BOOLEAN :
       IF ok THEN /\ created' = created \cup {file}
                  /\ pc' = next
                  /\ exit' = exit
       ELSE /\ created' = created
            /\ pc' = next
            /\ exit' = "createfail"
  /\ UNCHANGED <<af, gf, bf, gw, bw, todo, probes>>
  /\ UNCHANGED crawlVars
  /\ UNCHANGED argVars

\* os.Create of one output file, which makes it or truncates it, or fails
Create(file, next) ==
  /\ \E ok \in BOOLEAN :
       IF ok
       THEN /\ created' = created \cup {file}
            /\ pc' = next
            /\ exit' = exit
       ELSE /\ created' = created
            /\ pc' = "done"
            /\ exit' = "createfail"
  /\ UNCHANGED <<af, gf, bf, gw, bw, todo, probes>>
  /\ UNCHANGED crawlVars
  /\ UNCHANGED argVars

CreateAll == pc = "create_all" /\ Create("all", "create_good")

CreateGood == pc = "create_good" /\ Create("good", "create_bad")

CreateBad == pc = "create_bad" /\ Create("bad", "write_all")

\* a Flush that is missing: the buffered lines never reach the file
FlushMissing(file, buffered) == file

\* bufio.Writer.Flush: the file after the buffered lines are written to it
Flush(file, buffered) == file (+) buffered

\* the loop that prints every key of jsSet to aw, and aw.Flush
WriteAll ==
  /\ pc = "write_all"
  /\ af' = Flush(af, SetToBag(jsSet))
  /\ todo' = jsSet
  /\ pc' = "verify"
  /\ UNCHANGED <<exit, created, gf, bf, gw, bw, probes>>
  /\ UNCHANGED crawlVars
  /\ UNCHANGED argVars

\* classify, printing nothing for a URL whose probe failed at the transport
classifyLosesErrors(outcome) ==
  IF outcome.err THEN "none"
  ELSE IF outcome.status >= 400 THEN "bad"
  ELSE "good"

\* classify, with > for >=
classifyAbove400(outcome) ==
  IF outcome.err THEN "bad"
  ELSE IF outcome.status > 400 THEN "bad"
  ELSE "good"

\* the writer a probed URL is printed to
classify(outcome) ==
  IF outcome.err THEN "bad"
  ELSE IF outcome.status >= 400 THEN "bad"
  ELSE "good"

\* the range loop, coming back to a URL whose probe failed
stillToProbeRetry(rest, js, outcome) ==
  IF outcome.err \/ outcome.status >= 400 THEN rest ELSE rest \ {js}

\* for js := range jsSet: the keys the loop has yet to visit after this one;
\* both branches of the loop body go on to the next key
stillToProbe(rest, js, outcome) == rest \ {js}

\* one turn of the loop that tests and classifies the JS URLs
Probe ==
  /\ pc = "verify"
  /\ \E js \in todo : \E outcome \in ProbeOutcomes :
       /\ todo' = stillToProbe(todo, js, outcome)
       /\ probes' = probes (+) SetToBag({[js |-> js, err |-> outcome.err,
                                          status |-> outcome.status]})
       /\ gw' = IF classify(outcome) = "good" THEN gw (+) SetToBag({js}) ELSE gw
       /\ bw' = IF classify(outcome) = "bad" THEN bw (+) SetToBag({js}) ELSE bw
  /\ UNCHANGED <<pc, exit, created, af, gf, bf>>
  /\ UNCHANGED crawlVars
  /\ UNCHANGED argVars

\* the end of the loop: gw.Flush, bw.Flush and the return of main
VerifyDone ==
  /\ pc = "verify"
  /\ todo = {}
  /\ gf' = Flush(gf, gw)
  /\ bf' = Flush(bf, bw)
  /\ gw' = EmptyBag
  /\ bw' = EmptyBag
  /\ pc' = "done"
  /\ exit' = "ok"
  /\ UNCHANGED <<created, af, todo, probes>>
  /\ UNCHANGED crawlVars
  /\ UNCHANGED argVars

Next ==
  \/ ParseArgs
  \/ FetchFails
  \/ FetchPage
  \/ CrawlDone
  \/ CreateAll
  \/ CreateGood
  \/ CreateBad
  \/ WriteAll
  \/ Probe
  \/ VerifyDone

Spec == Init /\ [][Next]_vars

\* main runs on: every step that can be taken is taken in the end
FairSpec == Spec /\ WF_vars(Next)

(***************************************************************************)
(* The link graph of a site, as the crawl of one command line sees it      *)
(***************************************************************************)
\* the command lines that start a crawl
RunArgs == {a \in ArgLists : Len(a) >= 2}

\* a link is in scope: it parses and its host is the target domain
InScope(link, dom) == Parse(link).ok /\ Parse(link).Host = dom

\* the in-scope anchor links of the page the site serves for page
scopedLinks(name, dom, page) ==
  IF Supported(page)
  THEN {v \in Range(extractLinks(Response(name, page).body, page)) :
          InScope(v, dom)}
  ELSE {}

\* the least set that holds the pages of S and every in-scope link of a page in it
RECURSIVE reachFrom(_, _, _)
reachFrom(name, dom, S) ==
  Let(S \cup UNION {scopedLinks(name, dom, p) : p \in S},
      LAMBDA S2 : IF S2 = S THEN S ELSE reachFrom(name, dom, S2))

\* per site and command line: the in-domain URLs reachable from the root
\* through anchor links
ReachTable ==
  [n \in SiteNames |->
     [a \in RunArgs |->
        reachFrom(n, a[2], {rootOf(schemeOf(a), a[2])})]]

\* per site, command line and reachable page: its in-scope links
LinkTable ==
  [n \in SiteNames |->
     [a \in RunArgs |->
        [p \in ReachTable[n][a] |-> scopedLinks(n, a[2], p)]]]

Reachable == ReachTable[site][args]

\* url.Parse of the reachable URLs, computed once
ParseTable ==
  [u \in UNION {ReachTable[n][a] : n \in SiteNames, a \in RunArgs} |-> Parse(u)]

ParseOf(u) == IF u \in DOMAIN ParseTable THEN ParseTable[u] ELSE Parse(u)

LinksOf(page) ==
  IF page \in Reachable THEN LinkTable[site][args][page]
  ELSE scopedLinks(site, domain, page)

(***************************************************************************)
(* Properties                                                              *)
(***************************************************************************)
\* no entry of the sequence occurs twice
NoRepeat(q) == \A i, j \in DOMAIN q : q[i] = q[j] => i = j

\* the pages fetched so far, in order
Pages == [i \in DOMAIN fetched |-> fetched[i].page]

\* the pages whose fetch succeeded
OkPages == {fetched[i].page : i \in {k \in DOMAIN fetched : fetched[k].res = "ok"}}

\* the crawl loop has just run a turn in which the page was fetched and read
JustFetched ==
  pc = "crawl" /\ fetched # <<>> /\ fetched[Len(fetched)].res = "ok"

\* the anchor links extracted in that turn
LastLinks ==
  Range(extractLinks(Response(site, fetched[Len(fetched)].page).body,
                     fetched[Len(fetched)].page))

\* the verification has finished
Verified == pc = "done" /\ exit = "ok"

\* the crawl loop has ended: its condition len(queue) > 0 is false
CrawlOver == pc = "crawl" /\ queue = <<>>

Good == gw (+) gf
Bad == bw (+) bf
AllFiles == {"all", "good", "bad"}

(* C1: when the verification has finished, every URL of jsSet is in exactly
   one of the good and the bad file, once: the two files are disjoint, their
   union is jsSet, and their sizes add up to the size of jsSet, whatever the
   probes gave. *)
C1_Partition ==
  Verified =>
    /\ BagToSet(gf) \cap BagToSet(bf) = {}
    /\ BagToSet(gf) \cup BagToSet(bf) = jsSet
    /\ \A js \in jsSet : CopiesIn(js, gf) + CopiesIn(js, bf) = 1
    /\ BagCardinality(gf) + BagCardinality(bf) = Cardinality(jsSet)

C1_Witness ==
  /\ Verified
  /\ Cardinality(jsSet) >= 3
  /\ gf # EmptyBag /\ bf # EmptyBag
  /\ \E p \in BagToSet(probes) : p.err
  /\ \E p \in BagToSet(probes) : ~p.err /\ p.status >= 400

(* C2: a probed URL is classified Reachable exactly when its probe got a
   response with a status below 400, and Broken exactly when the probe got a
   status of 400 or more or failed at the transport, which is classified as
   a 404 is; a URL not probed yet is classified as neither. *)
C2_Classification ==
  /\ \A p \in BagToSet(probes) :
       /\ BagIn(p.js, Good) <=> (~p.err /\ p.status < 400)
       /\ BagIn(p.js, Bad) <=> (p.err \/ p.status >= 400)
  /\ \A js \in BagToSet(Good) \cup BagToSet(Bad) :
       \E p \in BagToSet(probes) : p.js = js

C2_Witness ==
  /\ Verified
  /\ \E p, q, r \in BagToSet(probes) :
       /\ p.err /\ BagIn(p.js, bf) /\ ~BagIn(p.js, gf)
       /\ ~q.err /\ q.status = 404 /\ BagIn(q.js, bf) /\ ~BagIn(q.js, gf)
       /\ ~r.err /\ r.status = 399 /\ BagIn(r.js, gf) /\ ~BagIn(r.js, bf)

\* the text of a URL without what a normalising crawler would ignore: the
\* case of its letters, a default port, a trailing slash, query and fragment
DefaultPort(scheme) ==
  IF scheme = <<"h","t","t","p","s">> THEN <<":","4","4","3">>
  ELSE IF scheme = <<"h","t","t","p">> THEN <<":","8","0">>
  ELSE <<>>

Normal(url) ==
  Let(Parse(url), LAMBDA u :
    [Scheme |-> u.Scheme,
     Host |-> ToLower(IF DefaultPort(u.Scheme) # <<>>
                         /\ HasSuffix(u.Host, DefaultPort(u.Scheme))
                      THEN Upto(u.Host, Len(u.Host) - Len(DefaultPort(u.Scheme)))
                      ELSE u.Host),
     Path |-> ToLower(TrimRight(u.Path, {"/"}))])

\* two URL strings that differ only by trailing slash, case, default port,
\* query or fragment
OtherSpelling(u, v) ==
  u # v /\ Parse(u).ok /\ Parse(v).ok /\ Normal(u) = Normal(v)

(* C3, as stated: no URL is put in the queue twice and no page is fetched
   twice, and a link that is another spelling of a page (trailing slash,
   case, default port, query, fragment) is a page of its own. *)
C3_Original ==
  /\ NoRepeat(enq)
  /\ NoRepeat(Pages)
  /\ JustFetched =>
       \A v \in LastLinks :
         (\E u \in seen : OtherSpelling(u, v)) => v \in seen

(* C3, amended: no URL is put in the queue twice and no page is fetched
   twice; the key is the exact resolved string, so every extracted link whose
   host is the target domain is a page of its own, put in the queue once,
   however close its spelling is to that of another page (trailing slash,
   case of the path, query, fragment); a link whose host is spelled
   differently (case, an explicit default port) is no page at all. *)
C3_ExactStringDedup ==
  /\ NoRepeat(enq)
  /\ NoRepeat(Pages)
  /\ JustFetched =>
       \A v \in LastLinks :
         IF InScope(v, domain)
         THEN v \in seen /\ Cardinality({i \in DOMAIN enq : enq[i] = v}) = 1
         ELSE v \notin seen

C3_Witness ==
  /\ JustFetched
  /\ Len(fetched) >= 6
  /\ {<<"h","t","t","p","s",":","/","/","e",".","c","/","a">>, <<"h","t","t","p","s",":","/","/","e",".","c","/","a","/">>, <<"h","t","t","p","s",":","/","/","e",".","c","/","A">>,
      <<"h","t","t","p","s",":","/","/","e",".","c","/","a","?","v","=","2">>, <<"h","t","t","p","s",":","/","/","e",".","c","/","a","#","f">>} \subseteq OkPages
  /\ \E v \in LastLinks : \E i \in 1..(Len(fetched) - 1) : fetched[i].page = v

(* C4: every URL in seen or in the queue, the root included, parses and has
   the target domain as its host, exactly; so has every page fetched.  Of the
   links of a page, two with the same host are both enqueued or both left
   out, whatever their schemes. *)
C4_HostIsDomain ==
  /\ \A u \in seen \cup Range(queue) \cup Range(enq) \cup Range(Pages) :
       ParseOf(u).ok /\ ParseOf(u).Host = domain
  /\ JustFetched =>
       \A v, w \in LastLinks :
         (ParseOf(v).ok /\ ParseOf(w).ok /\ ParseOf(v).Host = ParseOf(w).Host)
           => (v \in seen <=> w \in seen)

C4_Witness ==
  /\ JustFetched
  /\ root = <<"h","t","t","p","s",":","/","/","e",".","c","/">>
  /\ {<<"h","t","t","p",":","/","/","e",".","c","/","h">>, <<"f","t","p",":","/","/","e",".","c","/","f">>} \subseteq seen
  /\ \E v \in LastLinks : Parse(v).Host = <<"w","w","w",".","e",".","c">>
  /\ \E v \in LastLinks : Parse(v).Host = <<"E",".","c">>
  /\ \E v \in LastLinks : Parse(v).Host = <<"e",".","c",":","4","4","3">>
  /\ \E v \in LastLinks : v = <<>>

(* C5: pages are fetched in the order they were put in the queue, and the
   queue holds the rest in that order; so a page enqueued after fewer link
   hops from the root is fetched before one enqueued after more. *)
C5_BreadthFirst ==
  /\ \A i \in DOMAIN fetched : i <= Len(enq) /\ fetched[i].page = enq[i]
  /\ queue = SubSeq(enq, Len(fetched) + 1, Len(enq))
  /\ \A i, j \in DOMAIN fetched :
       i < j => depth[fetched[i].page] <= depth[fetched[j].page]

C5_Witness ==
  /\ Len(fetched) >= 10
  /\ \E i \in DOMAIN fetched : depth[fetched[i].page] = 2
  /\ \E i, j \in DOMAIN enq :
       /\ i < j /\ j <= Len(fetched)
       /\ depth[enq[i]] = 1 /\ depth[enq[j]] = 2
       /\ enq[j] \in LinksOf(enq[2])

(* C6: the link graph of the site within the domain being finite and every
   fetch returning, the crawl loop ends, and it ends with the queue empty
   and by nothing else; it makes no more fetches than there are in-domain
   URLs reachable from the root, and when no fetch fails it visits them all. *)
C6_Terminates ==
  /\ <>(pc \notin {"start", "crawl"})
  /\ [](Len(args) >= 2 => Len(fetched) <= Cardinality(Reachable))
  /\ [][(pc = "crawl" /\ pc' # "crawl") => queue = <<>>]_vars
  /\ []((CrawlOver /\ failures = 0) => seen = Reachable)

C6_Witness ==
  /\ CrawlOver
  /\ site = "spellings"
  /\ failures = 0
  /\ Len(fetched) = Cardinality(Reachable)
  /\ Len(fetched) >= 12

(* C7: a turn of the crawl loop in which the fetch fails changes neither
   jsSet nor seen, takes the page off the queue and puts nothing in it, the
   page least of all, and leaves main in the crawl loop. *)
C7_FailureSkips ==
  [][(Len(fetched') = Len(fetched) + 1 /\ fetched'[Len(fetched')].res # "ok")
       => /\ jsSet' = jsSet
          /\ seen' = seen
          /\ fetched'[Len(fetched')].page = Head(queue)
          /\ queue' = Tail(queue)
          /\ Head(queue) \notin Range(queue')
          /\ enq' = enq
          /\ pc' = "crawl" /\ exit' = exit]_vars

C7_Witness ==
  /\ pc = "crawl"
  /\ \E i, j, k \in DOMAIN fetched :
       /\ i < j /\ j < k
       /\ fetched[i].res = "fetchErr" /\ Supported(fetched[i].page)
       /\ fetched[j].res = "readErr"
       /\ fetched[k].res = "ok"
  /\ jsSet # {}

\* the least set that holds the root and, with a page whose fetch succeeded,
\* the in-scope anchor links of that page
RECURSIVE closure(_)
closure(S) ==
  Let(S \cup UNION {LinksOf(p) : p \in S \cap OkPages},
      LAMBDA S2 : IF S2 = S THEN S ELSE closure(S2))

(* C8: when the crawl loop has ended, seen is the least set that holds the
   root and, for each member whose fetch succeeded, the in-scope anchor
   links of that page, and every member has been fetched; on the site of the
   scenario, with no fetch failing, that is 2 pages. *)
C8_VisitedIsClosure ==
  CrawlOver =>
    /\ seen = closure({root})
    /\ seen = Range(Pages)
    /\ (site = "scenario" /\ failures = 0)
         => Cardinality(seen) = 2 /\ Len(fetched) = 2

C8_Witness ==
  /\ CrawlOver
  /\ site = "spellings"
  /\ failures = 2
  /\ Cardinality(seen) >= 8
  /\ seen # Reachable

(* C9: the file of all JS URLs changes only in the step that writes it, which
   comes after the crawl loop has ended and before any probe, finds the file
   empty and leaves in it every member of jsSet once; every probe finds it
   written. *)
C9_AllWrittenOnce ==
  [][/\ af' # af =>
          /\ pc = "write_all" /\ queue = <<>> /\ probes = EmptyBag
          /\ af = EmptyBag
          /\ af' = SetToBag(jsSet)
     /\ probes' # probes => (af = SetToBag(jsSet) /\ af' = af /\ jsSet # {})]_vars

C9_Witness ==
  /\ pc = "verify"
  /\ BagCardinality(probes) = 1
  /\ Cardinality(jsSet) >= 3
  /\ af = SetToBag(jsSet)

(* C10, as stated: a run that ends with jsSet empty has created no file and
   made no probe, and a run that ends with jsSet non-empty has created all
   three files. *)
C10_Original ==
  (pc = "done" /\ exit # "usage") =>
    IF jsSet = {} THEN created = {} /\ probes = EmptyBag
    ELSE created = AllFiles

(* C10, amended: with jsSet empty at the end of the crawl loop the run ends
   with no file created and no probe made; with jsSet non-empty the files
   are created in the order all, good, bad, and all three exist unless a
   creation fails, which ends the run with the files before it created and
   no probe made. *)
C10_FilesOnlyForJs ==
  /\ (created # {} \/ probes # EmptyBag) => jsSet # {}
  /\ probes # EmptyBag => created = AllFiles
  /\ (pc = "done" /\ exit # "usage") =>
       IF jsSet = {} THEN exit = "nojs" /\ created = {} /\ probes = EmptyBag
       ELSE \/ exit = "ok" /\ created = AllFiles
            \/ /\ exit = "createfail" /\ probes = EmptyBag
               /\ created \in {{}, {"all"}, {"all", "good"}}

C10_Witness ==
  /\ pc = "done" /\ exit = "nojs"
  /\ site = "plain"
  /\ Len(fetched) = 3
  /\ Cardinality(OkPages) = 3
  /\ created = {} /\ probes = EmptyBag

(***************************************************************************)
(* The elements of the page of the last turn of the crawl loop             *)
(***************************************************************************)
\* the page fetched last and the document it was answered with
LastPage == fetched[Len(fetched)].page

LastDoc == Response(site, LastPage).body

\* the nodes of a tree
RECURSIVE Nodes(_)
Nodes(n) == {n} \cup UNION {Nodes(n.Children[i]) : i \in DOMAIN n.Children}

\* the elements of a document with this tag name
Elements(doc, tag) == {n \in Nodes(doc) : n.Type = ElementNode /\ n.Data = tag}

\* the element has an attribute with this key
HasAttr(n, key) == \E i \in DOMAIN n.Attr : n.Attr[i].Key = key

\* the text ends with the three characters ".js"
EndsWithJs(u) ==
  Len(u) >= 3 /\ u[Len(u) - 2] = "." /\ u[Len(u) - 1] = "j" /\ u[Len(u)] = "s"

(* C11, as stated: a link element adds its resolved href to the JS URLs of
   the page exactly when it has the attributes rel, as and href, rel is
   "modulepreload" or "prefetch", as is "script" and the resolved URL ends
   with ".js"; a link element without href adds nothing. *)
C11_LinkNeedsAllThree ==
  JustFetched =>
    \A n \in Elements(LastDoc, "link") :
      LET u == resolveURL(LastPage, attrVal(n.Attr, "href"))
          all == /\ HasAttr(n, "rel") /\ HasAttr(n, "as") /\ HasAttr(n, "href")
                 /\ attrVal(n.Attr, "rel") \in {<<"m","o","d","u","l","e","p","r","e","l","o","a","d">>, <<"p","r","e","f","e","t","c","h">>}
                 /\ attrVal(n.Attr, "as") = <<"s","c","r","i","p","t">>
                 /\ EndsWithJs(u)
      IN /\ linkPreloads(n.Attr, LastPage) = IF all THEN <<u>> ELSE <<>>
         /\ ~HasAttr(n, "href") => LastPage \notin jsSet

(* C11, what the code does: the same with href read as "" when the element
   has none, and "" resolves to the URL of the page. *)
C11_MissingHrefIsEmpty ==
  JustFetched =>
    \A n \in Elements(LastDoc, "link") :
      LET u == resolveURL(LastPage, attrVal(n.Attr, "href"))
          all == /\ attrVal(n.Attr, "rel") \in {<<"m","o","d","u","l","e","p","r","e","l","o","a","d">>, <<"p","r","e","f","e","t","c","h">>}
                 /\ attrVal(n.Attr, "as") = <<"s","c","r","i","p","t">>
                 /\ EndsWithJs(u)
      IN /\ linkPreloads(n.Attr, LastPage) = IF all THEN <<u>> ELSE <<>>
         /\ all => u \in jsSet
         /\ ~HasAttr(n, "href") => u = LastPage

C11_Witness ==
  /\ JustFetched
  /\ LastPage = <<"h","t","t","p","s",":","/","/","e",".","c","/","a","p","p",".","j","s">>
  /\ \E n \in Elements(LastDoc, "link") : ~HasAttr(n, "href")
  /\ LastPage \in jsSet

\* the URLs the src attributes of the script elements of a document resolve to
ScriptSrcURLs(doc, base) ==
  UNION {{resolveURL(base, n.Attr[i].Val) :
            i \in {k \in DOMAIN n.Attr : n.Attr[k].Key = "src"}} :
         n \in Elements(doc, "script")}

(* C12: a script element with a src attribute adds the resolved URL to the JS
   URLs of the page exactly when the whole resolved text ends with ".js",
   letter case included; a URL ending in ".JS", ".js.map" or ".js?v=2" is
   left out, and every member of jsSet ends with ".js". *)
C12_ExactSuffix ==
  /\ \A js \in jsSet : EndsWithJs(js)
  /\ jsSet \cap {<<"h","t","t","p","s",":","/","/","e",".","c","/","a","/","b",".","J","S">>, <<"h","t","t","p","s",":","/","/","e",".","c","/","a","/","b",".","j","s",".","m","a","p">>,
                 <<"h","t","t","p","s",":","/","/","e",".","c","/","a","p","p",".","j","s","?","v","=","2">>} = {}
  /\ JustFetched =>
       \A n \in Elements(LastDoc, "script") :
         \A i \in DOMAIN n.Attr :
           n.Attr[i].Key = "src" =>
             LET u == resolveURL(LastPage, n.Attr[i].Val)
             IN IF EndsWithJs(u)
                THEN u \in Range(scriptSrcs(n.Attr, LastPage)) /\ u \in jsSet
                ELSE u \notin Range(scriptSrcs(n.Attr, LastPage))

C12_Witness ==
  /\ JustFetched
  /\ site = "scripts"
  /\ LastPage = <<"h","t","t","p","s",":","/","/","e",".","c","/">>
  /\ {<<"h","t","t","p","s",":","/","/","e",".","c","/","a","/","b",".","J","S">>, <<"h","t","t","p","s",":","/","/","e",".","c","/","a","/","b",".","j","s",".","m","a","p">>, <<"h","t","t","p","s",":","/","/","e",".","c","/","a","p","p",".","j","s","?","v","=","2">>,
      <<"h","t","t","p","s",":","/","/","e",".","c","/","a","/","b",".","j","s">>, <<"h","t","t","p","s",":","/","/","x",".","y","/","l","i","b",".","j","s">>}
       \subseteq ScriptSrcURLs(LastDoc, LastPage)
  /\ {<<"h","t","t","p","s",":","/","/","e",".","c","/","a","/","b",".","j","s">>, <<"h","t","t","p","s",":","/","/","x",".","y","/","l","i","b",".","j","s">>} \subseteq jsSet

\* the values of the attributes with this key on the elements with this tag
AttrVals(doc, tag, key) ==
  UNION {{n.Attr[i].Val : i \in {k \in DOMAIN n.Attr : n.Attr[k].Key = key}} :
         n \in Elements(doc, tag)}

\* resolving the reference fails: resolveURL returns "" after an error
\* (a reference that parses never resolves to "" against an absolute base)
ResolveFails(base, ref) == ~Parse(ref).ok \/ ~Parse(base).ok

(* C13, as stated: a src or href whose resolution fails adds nothing to the
   JS URLs or to the links of the page, the other references of the document
   are still extracted, and the failed reference is never put in seen or in
   the queue. *)
C13_FailedRefOmitted ==
  /\ <<>> \notin seen \cup Range(queue) \cup jsSet
  /\ JustFetched =>
       /\ <<>> \notin Range(extractJS(LastDoc, LastPage))
       /\ <<>> \notin Range(extractLinks(LastDoc, LastPage))
       /\ \A h \in AttrVals(LastDoc, "a", "href") :
            IF ResolveFails(LastPage, h) THEN h \notin seen
            ELSE resolveURL(LastPage, h) \in Range(extractLinks(LastDoc, LastPage))
       /\ \A h \in AttrVals(LastDoc, "script", "src") :
            (~ResolveFails(LastPage, h) /\ EndsWithJs(resolveURL(LastPage, h)))
              => resolveURL(LastPage, h) \in jsSet

(* C13, what the code does: a src whose resolution fails adds nothing to the
   JS URLs; an href whose resolution fails adds the empty string to the
   links of the page, which the host test keeps out of seen and the queue;
   the other references are extracted all the same. *)
C13_FailedHrefIsEmptyLink ==
  /\ <<>> \notin seen \cup Range(queue) \cup jsSet
  /\ JustFetched =>
       /\ <<>> \notin Range(extractJS(LastDoc, LastPage))
       /\ <<>> \in Range(extractLinks(LastDoc, LastPage))
            <=> \E h \in AttrVals(LastDoc, "a", "href") : ResolveFails(LastPage, h)
       /\ \A h \in AttrVals(LastDoc, "a", "href") :
            IF ResolveFails(LastPage, h) THEN h \notin seen
            ELSE resolveURL(LastPage, h) \in Range(extractLinks(LastDoc, LastPage))
       /\ \A h \in AttrVals(LastDoc, "script", "src") :
            (~ResolveFails(LastPage, h) /\ EndsWithJs(resolveURL(LastPage, h)))
              => resolveURL(LastPage, h) \in jsSet

C13_Witness ==
  /\ JustFetched
  /\ site = "spellings"
  /\ <<":","b","a","d">> \in AttrVals(LastDoc, "a", "href")
  /\ ResolveFails(LastPage, <<":","b","a","d">>)
  /\ <<>> \in Range(extractLinks(LastDoc, LastPage))
  /\ <<"h","t","t","p","s",":","/","/","e",".","c","/","a">> \in seen

(* C14: once the creation of one of the three files has failed, whichever it
   was, main has returned: no URL is in any of the three files or held by a
   writer, and no probe has been made. *)
C14_CreateFailureWritesNothing ==
  exit = "createfail" =>
    /\ pc = "done"
    /\ created \in {{}, {"all"}, {"all", "good"}}
    /\ af = EmptyBag /\ gf = EmptyBag /\ bf = EmptyBag
    /\ gw = EmptyBag /\ bw = EmptyBag
    /\ todo = {} /\ probes = EmptyBag

C14_Witness ==
  /\ pc = "done" /\ exit = "createfail"
  /\ created = {"all", "good"}
  /\ Cardinality(jsSet) >= 3
  /\ af = EmptyBag /\ probes = EmptyBag

(* C15: at every turn of the crawl loop seen is the set of the pages already
   taken off the queue together with the pages in the queue, no page is in
   both or twice in either, and seen never loses a member; so when the queue
   is empty every member of seen has been fetched once, failed fetches
   included, and len(seen), the page count main prints at the end, is the
   number of fetches. *)
C15_SeenIsFetchedPlusQueue ==
  /\ [](/\ seen = Range(Pages) \cup Range(queue)
        /\ Range(Pages) \cap Range(queue) = {}
        /\ NoRepeat(queue)
        /\ \A u \in seen :
             Cardinality({i \in DOMAIN fetched : fetched[i].page = u})
               = IF u \in Range(queue) THEN 0 ELSE 1
        /\ (queue = <<>> => Cardinality(seen) = Len(fetched)))
  /\ [][seen \subseteq seen']_vars

C15_Witness ==
  /\ Verified
  /\ site = "spellings"
  /\ failures = 2
  /\ Cardinality(seen) >= 8
  /\ Cardinality(seen) = Len(fetched)
  /\ \E i \in DOMAIN fetched : fetched[i].res = "fetchErr" /\ ~Supported(fetched[i].page)

\* the JS URLs probed so far
Probed == {p.js : p \in BagToSet(probes)}

(* C16: no step takes a member out of jsSet, and no step after the crawl
   loop changes it; the URLs probed and classified are those written to the
   file of all JS URLs, no more and no fewer once the verification has
   finished. *)
C16_JsSetFrozen ==
  /\ [][jsSet \subseteq jsSet']_vars
  /\ [][pc # "crawl" => jsSet' = jsSet]_vars
  /\ [](pc = "verify" =>
          /\ BagToSet(af) = jsSet
          /\ Probed \cup todo = jsSet /\ Probed \cap todo = {}
          /\ BagToSet(Good) \cup BagToSet(Bad) = Probed)
  /\ [](Verified =>
          /\ Probed = BagToSet(af) /\ Probed = jsSet
          /\ BagToSet(gf) \cup BagToSet(bf) = BagToSet(af))

C16_Witness ==
  /\ Verified
  /\ site = "scenario"
  /\ Len(fetched) = 2 /\ failures = 0
  /\ jsSet = {<<"h","t","t","p","s",":","/","/","e",".","c","/","a","p","p",".","j","s">>, <<"h","t","t","p","s",":","/","/","e",".","c","/","c","h","u","n","k","1",".","j","s">>}
  /\ Probed = jsSet
  /\ BagToSet(af) = jsSet

\* per site, command line and reachable page: the JS URLs extractJS finds in
\* the page
JsTable ==
  [n \in SiteNames |-> [a \in RunArgs |-> [p \in ReachTable[n][a] |->
     Let(Response(n, p).body, LAMBDA doc : extractJS(doc, p))]]]

JsOf(page) ==
  IF page \in Reachable THEN JsTable[site][args][page]
  ELSE extractJS(Response(site, page).body, page)

\* the number of JS references extracted in the first k fetches
RECURSIVE References(_)
References(k) ==
  IF k = 0 THEN 0
  ELSE References(k - 1)
         + (IF fetched[k].res = "ok" THEN Len(JsOf(fetched[k].page)) ELSE 0)

(* C17: jsSet is the union of the JS URLs extracted from the pages whose
   fetch succeeded, at the end of the crawl loop and at every turn before
   it: a URL named by several pages is in it once, a URL named only by a
   page whose fetch failed or that was never enqueued is not in it, and it
   has no more members than references were extracted. *)
C17_JsSetIsUnion ==
  /\ jsSet = UNION {Range(JsOf(p)) : p \in OkPages}
  /\ Cardinality(jsSet) <= References(Len(fetched))

C17_Witness ==
  /\ CrawlOver
  /\ site = "spellings"
  /\ failures = 2
  /\ {<<"h","t","t","p","s",":","/","/","e",".","c","/","a">>, <<"h","t","t","p","s",":","/","/","e",".","c","/","b">>} \subseteq OkPages
  /\ jsSet = {<<"h","t","t","p","s",":","/","/","e",".","c","/","s",".","j","s">>}
  /\ References(Len(fetched)) >= 2
  /\ \E i \in DOMAIN fetched : fetched[i].res # "ok" /\ Supported(fetched[i].page)

(* C18: nothing is tried twice.  Every probe is of a URL not probed before,
   whatever the earlier probes gave, and when the verification has finished
   every member of jsSet has been probed once; no page is fetched twice, a
   page whose fetch failed least of all, and such a page is not put back in
   the queue. *)
C18_NoRetries ==
  /\ [](/\ \A p \in BagToSet(probes) : CopiesIn(p, probes) = 1
        /\ \A p, q \in BagToSet(probes) : p.js = q.js => p = q
        /\ Probed \cap todo = {}
        /\ (Verified => Probed = jsSet /\ BagCardinality(probes) = Cardinality(jsSet))
        /\ \A i, j \in DOMAIN fetched :
             (i < j /\ fetched[i].res # "ok") => fetched[j].page # fetched[i].page
        /\ \A i \in DOMAIN fetched :
             fetched[i].res # "ok" => fetched[i].page \notin Range(queue))
  /\ [][probes' # probes =>
          \E js \in todo \ Probed : \E o \in ProbeOutcomes :
            /\ probes' = probes (+) SetToBag({[js |-> js, err |-> o.err,
                                               status |-> o.status]})
            /\ js \notin todo']_vars

C18_Witness ==
  /\ Verified
  /\ Cardinality(jsSet) >= 3
  /\ \E p \in BagToSet(probes) : p.err
  /\ \E p \in BagToSet(probes) : ~p.err /\ p.status = 404
  /\ BagCardinality(probes) = Cardinality(jsSet)
  /\ \E i \in DOMAIN fetched : fetched[i].res = "readErr"

(* C19: the crawl loop does not look at the status of a page: the JS URLs
   and the in-scope links of every page that was fetched and read are in
   jsSet and in seen, a page answered with a status of 400 or more included;
   the pages skipped are those whose fetch or read failed, and no others.
   The verification does look: a probe answered with 400 or more is bad. *)
C19_PageStatusIgnored ==
  /\ JustFetched =>
       /\ fetched[Len(fetched)].status = Response(site, LastPage).status
       /\ Range(extractJS(LastDoc, LastPage)) \subseteq jsSet
       /\ \A v \in Range(extractLinks(LastDoc, LastPage)) :
            InScope(v, domain) => v \in seen
  /\ \A i \in DOMAIN fetched :
       IF fetched[i].res = "ok"
       THEN /\ Range(JsOf(fetched[i].page)) \subseteq jsSet
            /\ LinksOf(fetched[i].page) \subseteq seen
       ELSE fetched[i].status = 0
  /\ \A p \in BagToSet(probes) :
       (~p.err /\ p.status >= 400) => (BagIn(p.js, Bad) /\ ~BagIn(p.js, Good))

C19_Witness ==
  /\ JustFetched
  /\ site = "notfound"
  /\ Len(fetched) = 1
  /\ fetched[1].status = 404
  /\ jsSet = {<<"h","t","t","p","s",":","/","/","e",".","c","/","e","r","r",".","j","s">>}
  /\ seen = {<<"h","t","t","p","s",":","/","/","e",".","c","/">>, <<"h","t","t","p","s",":","/","/","e",".","c","/","x">>}

====
